---- MODULE Spec2Model ----
(***************************************************************************)
(* The decode pipeline of QRCodeReader/pyzbar/pyzbar.py as a state machine. *)
(*                                                                         *)
(* One call of decode(image, symbols, scan_locations) is a walk of pc      *)
(* through the statements of decode and of the context managers and        *)
(* generators it drives.  Every call of a zbar primitive is one step; the  *)
(* primitive's name and handle are appended to `calls`, and its result is  *)
(* chosen by the engine (the environment).  The image argument is the      *)
(* (pixels, width, height) tuple form of line 175; pixels is represented   *)
(* by its length, the only thing decode itself reads from it.              *)
(***************************************************************************)
EXTENDS Integers, Sequences, FiniteSets

\* ------------------------------------------------------------------ bounds
MaxDim == 2
MaxLen == 2
MaxSymbols == 2
MaxLocs == 1

\* The scan points (x, y) the engine may hold for a symbol.
Points == {<<-1, 2>>, <<2, 0>>}

\* ------------------------------------------------------- program constants
\* FOURCC['GRAY'], the other tag of the table.
FOURCC_GRAY == 1497715271
\* FOURCC['L800'], the format tag handed to zbar_image_set_format.
FOURCC_L800 == 808466521
\* ZBarConfig.CFG_ENABLE is the only option decode ever sets; its values:
CFG_OFF == 0
CFG_ON == 1

\* The ZBarSymbol enumeration (wrapper.py), restricted to two members.
ZBarSymbol == {"QRCODE", "CODE128"}
QRCODE_CODE == 64
CODE128_CODE == 128
\* A type code of the engine that the enumeration does not know.
UNKNOWN_CODE == 99
TypeCodes == {QRCODE_CODE, CODE128_CODE, UNKNOWN_CODE}

\* The interpreters the module is written for (print_function, xrange,
\* tostring fallbacks): `/` on two ints floors on 2 and is exact on 3.
Interpreters == {2, 3}

NULL == 0
NoExc == "none"

VARIABLES
    image,          \* argument: [len, width, height], the tuple of line 175
    symbols,        \* argument: [none, types]; none = TRUE is symbols=None
    scan_locations, \* argument
    pixels, width, height, bpp,   \* locals of decode, lines 175-178
    results,        \* local of decode, line 182
    scanner, img,   \* the handles bound by the two with statements
    decoded,        \* line 203
    disable,        \* line 186; shrinks as the loop of 187 consumes it
    enable,         \* what the loop of line 195 still has to visit
    symbol,         \* symbols_for_image's local
    data, symbol_type, locations, loc_size,  \* decode_symbols' locals
    exc,            \* the exception in flight, NoExc when none
    ret,            \* what the call handed to its caller
    pc,
    live_scanners, live_images,   \* engine: handles created and not destroyed
    enabled,        \* engine: symbol types the scanner has enabled
    img_format, img_size, img_data,  \* engine: fields of the image object
    calls           \* every primitive invoked by this call, in order

vars == <<image, symbols, scan_locations, pixels, width, height, bpp, results,
          scanner, img, decoded, disable, enable, symbol, data, symbol_type,
          locations, loc_size, exc, ret, pc, live_scanners, live_images,
          enabled, img_format, img_size, img_data, calls>>

args == <<image, symbols, scan_locations>>
unpacked == <<pixels, width, height>>
cfgloops == <<disable, enable>>
genlocals == <<symbol, data, symbol_type, locations, loc_size>>
engine_image == <<img_format, img_size, img_data>>

\* ----------------------------------------------------------------- helpers
\* The entry `calls` gets for a primitive: its name, the handle it was given
\* (for a create primitive, the handle it returned), its other arguments
\* and results.
Call(op, handle) == [op |-> op, h |-> handle, a |-> <<>>]
CallA(op, handle, a) == [op |-> op, h |-> handle, a |-> a]

\* A test for None alone: an empty collection configures the scanner too.
Truthy_NotNone(s) == ~s.none

\* bool(symbols) of line 184: None and an empty collection are falsy.
Truthy(s) == ~s.none /\ s.types # {}

RECURSIVE Gcd(_, _)
Gcd(a, b) == IF b = 0 THEN a ELSE Gcd(b, a % b)

\* A number as a fraction in lowest terms, so that 8 and 8.0 are one value.
Frac(n, d) == LET g == Gcd(n, d) IN <<n \div g, d \div g>>

\* 8 * len(pixels) / (width * height) for a non-zero divisor, line 178.
Divide(n, d, interpreter) ==
    IF interpreter = 2 THEN <<n \div d, 1>> ELSE Frac(n, d)

\* A check that only rejects fewer than 8 bits per pixel.
BppAtLeast8(b) == b[1] >= 8 * b[2]

\* 8 != bpp of line 179, negated.
BppIs8(b) == b = <<8, 1>>

\* Nothing is disabled: only the enable loop tells the scanner anything.
DisableSet_None(s) == {}

\* if symbols: of line 184 is Truthy; line 186.
DisableSet(s) == ZBarSymbol \ s.types

\* The status of the scan is not looked at.
ScanFailed_Never(n) == FALSE

\* Zero symbols found is taken for the failure, a negative status is not.
ScanFailed_Zero(n) == n = 0

\* decoded < 0 of line 204.
ScanFailed(n) == n < 0

\* ZBarSymbol(code).name of line 123; "" stands for the ValueError raised
\* for a code that is no member.
ZBarSymbolName(code) ==
    IF code = QRCODE_CODE THEN "QRCODE"
    ELSE IF code = CODE128_CODE THEN "CODE128"
    ELSE ""

\* min() and max() of a non-empty list, a left-to-right sweep.
RECURSIVE SeqMin(_)
SeqMin(s) ==
    IF Len(s) = 1 THEN s[1]
    ELSE LET m == SeqMin(Tail(s)) IN IF s[1] <= m THEN s[1] ELSE m

RECURSIVE SeqMax(_)
SeqMax(s) ==
    IF Len(s) = 1 THEN s[1]
    ELSE LET m == SeqMax(Tail(s)) IN IF s[1] >= m THEN s[1] ELSE m

\* list(map(itemgetter(k), locations)), lines 89 and 91.
Column(locs, k) == [i \in DOMAIN locs |-> locs[i][k]]

Rect(left, top, w, h) == [left |-> left, top |-> top, width |-> w, height |-> h]

\* A box spanned by the first and the last point only.
bounding_box_first_last(locs) ==
    LET a == locs[1]
        b == locs[Len(locs)]
        x_min == IF a[1] <= b[1] THEN a[1] ELSE b[1]
        x_max == IF a[1] >= b[1] THEN a[1] ELSE b[1]
        y_min == IF a[2] <= b[2] THEN a[2] ELSE b[2]
        y_max == IF a[2] >= b[2] THEN a[2] ELSE b[2]
    IN [left |-> x_min, top |-> y_min, width |-> x_max - x_min,
        height |-> y_max - y_min]

\* The extents subtracted the wrong way round.
bounding_box_min_minus_max(locs) ==
    LET x_values == Column(locs, 1)
        y_values == Column(locs, 2)
    IN Rect(SeqMin(x_values), SeqMin(y_values),
            SeqMin(x_values) - SeqMax(x_values),
            SeqMin(y_values) - SeqMax(y_values))

bounding_box_of_locations(locs) ==
    LET x_values == Column(locs, 1)
        y_values == Column(locs, 2)
        x_min == SeqMin(x_values)
        x_max == SeqMax(x_values)
        y_min == SeqMin(y_values)
        y_max == SeqMax(y_values)
    IN Rect(x_min, y_min, x_max - x_min, y_max - y_min)

Decoded(d, t, r) == [data |-> d, type |-> t, rect |-> r]

\* zbar_image without its try/finally: an exception in the body of the
\* image's with statement leaves it without zbar_image_destroy.
Unwind_NoImageFinally(scope) ==
    IF scope = "none" THEN "failed" ELSE "zbar_image_scanner_destroy"

\* zbar_image with zbar_image_create inside its try: a failed creation
\* runs the finally clause too.
Unwind_CreateInsideTry(scope) ==
    IF scope = "none" THEN "failed" ELSE "zbar_image_destroy"

\* zbar_image_scanner without its try/finally: an exception in the body of
\* the scanner's with statement leaves it without zbar_image_scanner_destroy.
Unwind_NoScannerFinally(scope) ==
    IF scope = "image" THEN "zbar_image_destroy" ELSE "failed"

\* Where control goes when an exception leaves a statement: through the
\* finally clause of every context manager whose body is being left.
\* scope is the innermost with statement entered ("none", "scanner", "image").
Unwind(scope) ==
    IF scope = "image" THEN "zbar_image_destroy"
    ELSE IF scope = "scanner" THEN "zbar_image_scanner_destroy"
    ELSE "failed"

\* A context manager that swallows what its body raised.
AfterWith_Swallow(e) == "return"

\* What follows the outer with statement once its finally clause has run:
\* line 209 when no exception is in flight, the caller otherwise (a
\* generator-based context manager re-raises what its body raised).
AfterWith(e) == IF e = NoExc THEN "return" ELSE Unwind("none")

\* ------------------------------------------------------------------- state
NoSymbols == [none |-> TRUE, types |-> {}]
NoImage == [len |-> 0, width |-> 0, height |-> 0]

Images == [len : 0..MaxLen, width : 0..MaxDim, height : 0..MaxDim]
Filters == {NoSymbols} \cup {[none |-> FALSE, types |-> t] : t \in SUBSET ZBarSymbol}

Init ==
    /\ image = NoImage
    /\ symbols = NoSymbols
    /\ scan_locations = FALSE
    /\ pixels = 0 /\ width = 0 /\ height = 0
    /\ bpp = <<0, 1>>
    /\ results = <<>>
    /\ scanner = NULL /\ img = NULL
    /\ decoded = 0
    /\ disable = {} /\ enable = {}
    /\ symbol = NULL
    /\ data = 0 /\ symbol_type = "" /\ locations = <<>> /\ loc_size = 0
    /\ exc = NoExc
    /\ ret = <<>>
    /\ pc = "idle"
    /\ live_scanners = {} /\ live_images = {}
    /\ enabled = {}
    /\ img_format = 0 /\ img_size = <<0, 0>> /\ img_data = 0
    /\ calls = <<>>

\* ------------------------------------------------------------------ decode
\* The caller invokes decode with some arguments; the frame is fresh.
Invoke ==
    /\ pc = "idle"
    /\ \E i \in Images, f \in Filters, s \in BOOLEAN :
        /\ image' = i
        /\ symbols' = f
        /\ scan_locations' = s
    /\ pc' = "unpack"
    /\ UNCHANGED <<unpacked, bpp, results, scanner, img, decoded, cfgloops,
                   genlocals, exc, ret, live_scanners, live_images, enabled,
                   engine_image, calls>>

\* The caller has the list or the exception: the frame of the call is gone,
\* the engine keeps whatever the call left in it, and decode can be invoked
\* again.
Finish ==
    /\ pc \in {"done", "failed"}
    /\ image' = NoImage
    /\ symbols' = NoSymbols
    /\ scan_locations' = FALSE
    /\ pixels' = 0 /\ width' = 0 /\ height' = 0
    /\ bpp' = <<0, 1>>
    /\ results' = <<>>
    /\ scanner' = NULL /\ img' = NULL
    /\ decoded' = 0
    /\ disable' = {} /\ enable' = {}
    /\ symbol' = NULL
    /\ data' = 0 /\ symbol_type' = "" /\ locations' = <<>> /\ loc_size' = 0
    /\ exc' = NoExc
    /\ ret' = <<>>
    /\ calls' = <<>>
    /\ pc' = "idle"
    /\ UNCHANGED <<live_scanners, live_images, enabled, engine_image>>

\* Line 175: pixels, width, height = image.
Unpack ==
    /\ pc = "unpack"
    /\ pixels' = image.len
    /\ width' = image.width
    /\ height' = image.height
    /\ pc' = "bpp"
    /\ UNCHANGED <<args, bpp, results, scanner, img, decoded, cfgloops,
                   genlocals, exc, ret, live_scanners, live_images, enabled,
                   engine_image, calls>>

\* Lines 178-182.
BitsPerPixel ==
    /\ pc = "bpp"
    /\ IF width * height = 0
       THEN /\ exc' = "ZeroDivisionError"
            /\ pc' = Unwind("none")
            /\ UNCHANGED bpp
       ELSE \E interpreter \in Interpreters :
            /\ bpp' = Divide(8 * pixels, width * height, interpreter)
            /\ IF ~BppIs8(bpp')
               THEN /\ exc' = "PyZbarError: Unsupported bits-per-pixel"
                    /\ pc' = Unwind("none")
               ELSE /\ exc' = exc
                    /\ pc' = "zbar_image_scanner_create"
    /\ results' = <<>>
    /\ UNCHANGED <<args, unpacked, scanner, img, decoded, cfgloops, genlocals,
                   ret, live_scanners, live_images, enabled, engine_image,
                   calls>>

\* ------------------------------------------------------------ the engine
\* The handle a create primitive returns when it succeeds: one that is not
\* live.  (The engine is the external zbar library, section 6 of the design.)
NewHandle(live) == CHOOSE h \in 1..(Cardinality(live) + 1) : h \notin live

\* What a create primitive may return: a fresh handle or null.
CreateResults(live) == {NULL, NewHandle(live)}

\* setScannerConfig(handle, type, CFG_ENABLE, value) on the enabled set.
SetConfig(on, type, value) ==
    IF value = CFG_OFF THEN on \ {type} ELSE on \cup {type}

\* The payload the engine holds for the n-th symbol of a scan: the symbol's
\* position in the chain, so that a record tells which handle it came from.
SymbolData(handle) == handle

\* ------------------------------------------------- with zbar_image_scanner
\* Lines 69-74: create the scanner; null raises, otherwise the body runs
\* (line 184 decides whether there is anything to configure).
ScannerCreate ==
    /\ pc = "zbar_image_scanner_create"
    /\ \E h \in CreateResults(live_scanners) :
        /\ calls' = Append(calls, Call("zbar_image_scanner_create", h))
        /\ IF h = NULL
           THEN /\ exc' = "PyZbarError: Could not create decoder"
                /\ pc' = Unwind("none")
                /\ UNCHANGED <<scanner, live_scanners, enabled, disable>>
           ELSE /\ scanner' = h
                /\ live_scanners' = live_scanners \cup {h}
                /\ enabled' = ZBarSymbol
                /\ exc' = exc
                /\ IF Truthy(symbols)
                   THEN /\ disable' = DisableSet(symbols)
                        /\ pc' = "disable"
                   ELSE /\ disable' = disable
                        /\ pc' = "zbar_image_create"
    /\ UNCHANGED <<args, unpacked, bpp, results, img, decoded, enable,
                   genlocals, ret, live_images, engine_image>>

\* Lines 187-190: one pass of the loop over `disable` (a set: any order);
\* when it is exhausted the loop of line 195 starts.
Disable ==
    /\ pc = "disable"
    /\ IF disable # {}
       THEN \E s \in disable :
            /\ calls' = Append(calls,
                    CallA("zbar_image_scanner_set_config", scanner, <<s, CFG_OFF>>))
            /\ enabled' = SetConfig(enabled, s, CFG_OFF)
            /\ disable' = disable \ {s}
            /\ enable' = enable
            /\ pc' = "disable"
       ELSE /\ enable' = symbols.types
            /\ pc' = "enable"
            /\ UNCHANGED <<calls, enabled, disable>>
    /\ UNCHANGED <<args, unpacked, bpp, results, scanner, img, decoded,
                   genlocals, exc, ret, live_scanners, live_images,
                   engine_image>>

\* Lines 195-198: one pass of the loop over `symbols`.
Enable ==
    /\ pc = "enable"
    /\ IF enable # {}
       THEN \E s \in enable :
            /\ calls' = Append(calls,
                    CallA("zbar_image_scanner_set_config", scanner, <<s, CFG_ON>>))
            /\ enabled' = SetConfig(enabled, s, CFG_ON)
            /\ enable' = enable \ {s}
            /\ pc' = "enable"
       ELSE /\ pc' = "zbar_image_create"
            /\ UNCHANGED <<calls, enabled, enable>>
    /\ UNCHANGED <<args, unpacked, bpp, results, scanner, img, decoded,
                   disable, genlocals, exc, ret, live_scanners, live_images,
                   engine_image>>

\* Line 76: the finally clause of zbar_image_scanner (the engine frees the
\* scanner and its configuration), then what follows the with statement:
\* line 209 when no exception is in flight, the caller otherwise.
ScannerDestroy ==
    /\ pc = "zbar_image_scanner_destroy"
    /\ calls' = Append(calls, Call("zbar_image_scanner_destroy", scanner))
    /\ live_scanners' = live_scanners \ {scanner}
    /\ enabled' = {}
    /\ pc' = AfterWith(exc)
    /\ UNCHANGED <<args, unpacked, bpp, results, scanner, img, decoded,
                   cfgloops, genlocals, exc, ret, live_images, engine_image>>

\* Line 209.
Return ==
    /\ pc = "return"
    /\ ret' = results
    /\ pc' = "done"
    /\ UNCHANGED <<args, unpacked, bpp, results, scanner, img, decoded,
                   cfgloops, genlocals, exc, live_scanners, live_images,
                   enabled, engine_image, calls>>

\* --------------------------------------------------------- with zbar_image
\* Lines 48-53.
ImageCreate ==
    /\ pc = "zbar_image_create"
    /\ \E h \in CreateResults(live_images) :
        /\ calls' = Append(calls, Call("zbar_image_create", h))
        /\ IF h = NULL
           THEN /\ exc' = "PyZbarError: Could not create image"
                /\ pc' = Unwind("scanner")
                /\ UNCHANGED <<img, live_images, engine_image>>
           ELSE /\ img' = h
                /\ live_images' = live_images \cup {h}
                /\ img_format' = 0
                /\ img_size' = <<0, 0>>
                /\ img_data' = 0
                /\ exc' = exc
                /\ pc' = "zbar_image_set_format"
    /\ UNCHANGED <<args, unpacked, bpp, results, scanner, decoded, cfgloops,
                   genlocals, ret, live_scanners, enabled>>

\* Line 200.
SetFormat ==
    /\ pc = "zbar_image_set_format"
    /\ calls' = Append(calls, CallA("zbar_image_set_format", img, <<FOURCC_L800>>))
    /\ img_format' = FOURCC_L800
    /\ pc' = "zbar_image_set_size"
    /\ UNCHANGED <<args, unpacked, bpp, results, scanner, img, decoded,
                   cfgloops, genlocals, exc, ret, live_scanners, live_images,
                   enabled, img_size, img_data>>

\* The dimensions in the order of image.shape.
SizeArgs_Swapped(w, h) == <<h, w>>

\* The arguments line 201 passes after the handle.
SizeArgs(w, h) == <<w, h>>

\* Line 201.
SetSize ==
    /\ pc = "zbar_image_set_size"
    /\ calls' = Append(calls, CallA("zbar_image_set_size", img, SizeArgs(width, height)))
    /\ img_size' = SizeArgs(width, height)
    /\ pc' = "zbar_image_set_data"
    /\ UNCHANGED <<args, unpacked, bpp, results, scanner, img, decoded,
                   cfgloops, genlocals, exc, ret, live_scanners, live_images,
                   enabled, img_format, img_data>>

\* Line 202.
SetData ==
    /\ pc = "zbar_image_set_data"
    /\ calls' = Append(calls, CallA("zbar_image_set_data", img, <<pixels>>))
    /\ img_data' = pixels
    /\ pc' = "zbar_scan_image"
    /\ UNCHANGED <<args, unpacked, bpp, results, scanner, img, decoded,
                   cfgloops, genlocals, exc, ret, live_scanners, live_images,
                   enabled, img_format, img_size>>

\* Lines 203-205: the engine answers a negative status or the number of
\* symbols it found.  The call is logged with the scanner it was given, the
\* status, and the types that scanner had enabled.
Scan ==
    /\ pc = "zbar_scan_image"
    /\ \E n \in -1..MaxSymbols :
        /\ calls' = Append(calls, CallA("zbar_scan_image", img, <<scanner, n, enabled>>))
        /\ decoded' = n
        /\ IF ScanFailed(n)
           THEN /\ exc' = "PyZbarError: Unsupported image format"
                /\ pc' = Unwind("image")
           ELSE /\ exc' = exc
                /\ pc' = "zbar_image_first_symbol"
    /\ UNCHANGED <<args, unpacked, bpp, results, scanner, img, cfgloops,
                   genlocals, ret, live_scanners, live_images, enabled,
                   engine_image>>

\* Line 55: the finally clause of zbar_image (the engine frees the image
\* object); the scanner's with statement is left next, with or without an
\* exception in flight.
ImageDestroy ==
    /\ pc = "zbar_image_destroy"
    /\ calls' = Append(calls, Call("zbar_image_destroy", img))
    /\ live_images' = live_images \ {img}
    /\ img_format' = 0
    /\ img_size' = <<0, 0>>
    /\ img_data' = 0
    /\ pc' = "zbar_image_scanner_destroy"
    /\ UNCHANGED <<args, unpacked, bpp, results, scanner, img, decoded,
                   cfgloops, genlocals, exc, ret, live_scanners, enabled>>

\* ------------------------ results.extend(decode_symbols(symbols_for_image))
\* The end of the generators leaves the image's with statement without its
\* finally clause.
WhileSymbol_LeavesImage(s) ==
    IF s # NULL THEN "zbar_symbol_get_data" ELSE "zbar_image_scanner_destroy"

\* A loop that tests the handle only after its body.
WhileSymbol_DoWhile(s) == "zbar_symbol_get_data"

\* What the while test of line 106 does with a symbol handle: the body of
\* decode_symbols' for loop for a handle, the end of both generators (and of
\* extend, and of the body of the image's with statement) for null.
WhileSymbol(s) == IF s # NULL THEN "zbar_symbol_get_data" ELSE "zbar_image_destroy"

\* Lines 105-106: the chain of a scan that found n symbols is the handles
\* 1..n.
FirstSymbol ==
    /\ pc = "zbar_image_first_symbol"
    /\ LET s == IF decoded > 0 THEN 1 ELSE NULL IN
        /\ calls' = Append(calls, CallA("zbar_image_first_symbol", img, <<s>>))
        /\ symbol' = s
        /\ pc' = WhileSymbol(s)
    /\ UNCHANGED <<args, unpacked, bpp, results, scanner, img, decoded,
                   cfgloops, data, symbol_type, locations, loc_size, exc, ret,
                   live_scanners, live_images, enabled, engine_image>>

\* Line 121.
GetData ==
    /\ pc = "zbar_symbol_get_data"
    /\ calls' = Append(calls, Call("zbar_symbol_get_data", symbol))
    /\ data' = SymbolData(symbol)
    /\ pc' = "symbol_type"
    /\ UNCHANGED <<args, unpacked, bpp, results, scanner, img, decoded,
                   cfgloops, symbol, symbol_type, locations, loc_size, exc,
                   ret, live_scanners, live_images, enabled, engine_image>>

\* Line 123: the type code is read through the handle and looked up in the
\* enumeration; a code that is no member raises ValueError.
GetType ==
    /\ pc = "symbol_type"
    /\ \E code \in TypeCodes :
        /\ calls' = Append(calls, CallA("symbol_type", symbol, <<code>>))
        /\ IF ZBarSymbolName(code) = ""
           THEN /\ exc' = "ValueError: not a valid ZBarSymbol"
                /\ pc' = Unwind("image")
                /\ UNCHANGED symbol_type
           ELSE /\ symbol_type' = ZBarSymbolName(code)
                /\ exc' = exc
                /\ pc' = "zbar_symbol_get_loc_size"
    /\ UNCHANGED <<args, unpacked, bpp, results, scanner, img, decoded,
                   cfgloops, symbol, data, locations, loc_size, ret,
                   live_scanners, live_images, enabled, engine_image>>

\* Line 129: the engine answers how many scan points the symbol has; the
\* list comprehension starts with an empty list.
GetLocSize ==
    /\ pc = "zbar_symbol_get_loc_size"
    /\ \E n \in 0..MaxLocs :
        /\ calls' = Append(calls, CallA("zbar_symbol_get_loc_size", symbol, <<n>>))
        /\ loc_size' = n
        /\ locations' = <<>>
        /\ pc' = IF n > 0 THEN "zbar_symbol_get_loc" ELSE "yield"
    /\ UNCHANGED <<args, unpacked, bpp, results, scanner, img, decoded,
                   cfgloops, symbol, data, symbol_type, exc, ret,
                   live_scanners, live_images, enabled, engine_image>>

\* Lines 125-128: one pass of the comprehension, for index = len(locations):
\* the engine answers the coordinates of the point it holds there.
GetLoc ==
    /\ pc = "zbar_symbol_get_loc"
    /\ \E p \in Points :
        LET x == p[1]
            y == p[2]
        IN /\ calls' = calls \o
                << CallA("zbar_symbol_get_loc_x", symbol, <<Len(locations)>>),
                   CallA("zbar_symbol_get_loc_y", symbol, <<Len(locations)>>) >>
           /\ locations' = Append(locations, <<x, y>>)
    /\ pc' = IF Len(locations') = loc_size THEN "yield" ELSE "zbar_symbol_get_loc"
    /\ UNCHANGED <<args, unpacked, bpp, results, scanner, img, decoded,
                   cfgloops, symbol, data, symbol_type, loc_size, exc, ret,
                   live_scanners, live_images, enabled, engine_image>>

\* Records collected newest first.
Extend_Front(rs, r) == <<r>> \o rs

\* What results.extend of line 207 does with one record the generator
\* yields: it goes to the end of the list.
Extend(rs, r) == Append(rs, r)

\* A fallback for a symbol without scan points: an all-zero rectangle
\* instead of the ValueError.
Yield_ZeroRect ==
    /\ pc = "yield"
    /\ results' = Append(results,
            Decoded(data, symbol_type,
                    IF locations = <<>> THEN Rect(0, 0, 0, 0)
                    ELSE bounding_box_of_locations(locations)))
    /\ data' = 0 /\ symbol_type' = "" /\ locations' = <<>> /\ loc_size' = 0
    /\ pc' = "zbar_symbol_next"
    /\ UNCHANGED <<args, unpacked, bpp, scanner, img, decoded, cfgloops,
                   symbol, exc, ret, live_scanners, live_images, enabled,
                   engine_image, calls>>

\* Lines 132-136 and the append extend makes of the yielded record.  min()
\* of line 90 raises ValueError on an empty list.  Past the yield the locals
\* of this pass are dead until the next pass rebinds them.
Yield ==
    /\ pc = "yield"
    /\ IF locations = <<>>
       THEN /\ exc' = "ValueError: min() arg is an empty sequence"
            /\ pc' = Unwind("image")
            /\ UNCHANGED <<results, data, symbol_type, locations, loc_size>>
       ELSE /\ results' = Extend(results,
                    Decoded(data, symbol_type, bounding_box_of_locations(locations)))
            /\ data' = 0 /\ symbol_type' = "" /\ locations' = <<>> /\ loc_size' = 0
            /\ exc' = exc
            /\ pc' = "zbar_symbol_next"
    /\ UNCHANGED <<args, unpacked, bpp, scanner, img, decoded, cfgloops,
                   symbol, ret, live_scanners, live_images, enabled,
                   engine_image, calls>>

\* Lines 108 and 106.
SymbolNext ==
    /\ pc = "zbar_symbol_next"
    /\ LET s == IF symbol < decoded THEN symbol + 1 ELSE NULL IN
        /\ calls' = Append(calls, CallA("zbar_symbol_next", symbol, <<s>>))
        /\ symbol' = s
        /\ pc' = WhileSymbol(s)
    /\ UNCHANGED <<args, unpacked, bpp, results, scanner, img, decoded,
                   cfgloops, data, symbol_type, locations, loc_size, exc, ret,
                   live_scanners, live_images, enabled, engine_image>>

Next ==
    \/ Invoke
    \/ Unpack
    \/ BitsPerPixel
    \/ ScannerCreate
    \/ Disable
    \/ Enable
    \/ ImageCreate
    \/ SetFormat
    \/ SetSize
    \/ SetData
    \/ Scan
    \/ FirstSymbol
    \/ GetData
    \/ GetType
    \/ GetLocSize
    \/ GetLoc
    \/ Yield
    \/ SymbolNext
    \/ ImageDestroy
    \/ ScannerDestroy
    \/ Return
    \/ Finish

Spec == Init /\ [][Next]_vars

\* --------------------------------------------------- a call runs to its end
\* The steps of a call in progress.  decode is synchronous and, every
\* primitive returning, the interpreter runs the next statement: a step that
\* can be taken is taken.  The caller owes nothing: it may never call again.
Step ==
    \/ Unpack
    \/ BitsPerPixel
    \/ ScannerCreate
    \/ Disable
    \/ Enable
    \/ ImageCreate
    \/ SetFormat
    \/ SetSize
    \/ SetData
    \/ Scan
    \/ FirstSymbol
    \/ GetData
    \/ GetType
    \/ GetLocSize
    \/ GetLoc
    \/ Yield
    \/ SymbolNext
    \/ ImageDestroy
    \/ ScannerDestroy
    \/ Return

SpecLive == Init /\ [][Next]_vars /\ WF_vars(Step)

\* -------------------------------------------- line 178 on a wider input set
\* decode just invoked on any tuple of the wider set: lengths up to the
\* first one at which the two interpreters disagree about 8 == bpp.
MaxBppDim == 3
MaxBppLen == 10
BppImages == [len : 0..MaxBppLen, width : 0..MaxBppDim, height : 0..MaxBppDim]

InitBpp ==
    /\ image \in BppImages
    /\ symbols = NoSymbols
    /\ scan_locations = FALSE
    /\ pixels = 0 /\ width = 0 /\ height = 0
    /\ bpp = <<0, 1>>
    /\ results = <<>>
    /\ scanner = NULL /\ img = NULL
    /\ decoded = 0
    /\ disable = {} /\ enable = {}
    /\ symbol = NULL
    /\ data = 0 /\ symbol_type = "" /\ locations = <<>> /\ loc_size = 0
    /\ exc = NoExc
    /\ ret = <<>>
    /\ pc = "unpack"
    /\ live_scanners = {} /\ live_images = {}
    /\ enabled = {}
    /\ img_format = 0 /\ img_size = <<0, 0>> /\ img_data = 0
    /\ calls = <<>>

NextBpp ==
    \/ Unpack
    \/ BitsPerPixel

SpecBpp == InitBpp /\ [][NextBpp]_vars

\* ------------------------------- lines 79-93 on a wider set of scan points
\* decode on a 1x1 image, no filter, at line 132 for the only symbol of the
\* scan, the engine having reported any list of up to MaxBoxLocs points.
MaxBoxLocs == 4
BoxPoints == {-1, 10, 50} \X {-1, 10, 30}
BoxLocations == UNION {[1..n -> BoxPoints] : n \in 0..MaxBoxLocs}

\* The primitives decode has invoked when it reaches line 132 there.
BoxCalls(n) ==
    << Call("zbar_image_scanner_create", 1),
       Call("zbar_image_create", 1),
       CallA("zbar_image_set_format", 1, <<FOURCC_L800>>),
       CallA("zbar_image_set_size", 1, <<1, 1>>),
       CallA("zbar_image_set_data", 1, <<1>>),
       CallA("zbar_scan_image", 1, <<1, 1, ZBarSymbol>>),
       CallA("zbar_image_first_symbol", 1, <<1>>),
       Call("zbar_symbol_get_data", 1),
       CallA("symbol_type", 1, <<QRCODE_CODE>>),
       CallA("zbar_symbol_get_loc_size", 1, <<n>>) >>
    \o [i \in 1..(2 * n) |->
          IF i % 2 = 1
          THEN CallA("zbar_symbol_get_loc_x", 1, <<(i - 1) \div 2>>)
          ELSE CallA("zbar_symbol_get_loc_y", 1, <<(i - 1) \div 2>>)]

InitBox ==
    /\ image = [len |-> 1, width |-> 1, height |-> 1]
    /\ symbols = NoSymbols
    /\ scan_locations = FALSE
    /\ pixels = 1 /\ width = 1 /\ height = 1
    /\ bpp = <<8, 1>>
    /\ results = <<>>
    /\ scanner = 1 /\ img = 1
    /\ decoded = 1
    /\ disable = {} /\ enable = {}
    /\ symbol = 1
    /\ data = SymbolData(1)
    /\ symbol_type = "QRCODE"
    /\ locations \in BoxLocations
    /\ loc_size = Len(locations)
    /\ exc = NoExc
    /\ ret = <<>>
    /\ pc = "yield"
    /\ live_scanners = {1} /\ live_images = {1}
    /\ enabled = ZBarSymbol
    /\ img_format = FOURCC_L800 /\ img_size = <<1, 1>> /\ img_data = 1
    /\ calls = BoxCalls(Len(locations))

NextBox ==
    \/ Yield
    \/ SymbolNext
    \/ ImageDestroy
    \/ ScannerDestroy
    \/ Return

SpecBox == InitBox /\ [][NextBox]_vars

\* ================================================================== claims
\* Reading `calls` the way a spy on the primitives would.
Positions(op) == {i \in DOMAIN calls : calls[i].op = op}
Count(op) == Cardinality(Positions(op))
CountH(op, handle) ==
    Cardinality({i \in DOMAIN calls : calls[i].op = op /\ calls[i].h = handle})
Has(op) == Count(op) > 0
HasResult(op, r) == \E i \in DOMAIN calls : calls[i].op = op /\ calls[i].h = r
Ended == pc \in {"done", "failed"}

\* The handles the create primitives returned in this call.
Created(op) == {calls[i].h : i \in Positions(op)} \ {NULL}

ImageSetupOps ==
    {"zbar_image_set_format", "zbar_image_set_size", "zbar_image_set_data"}
SymbolOps ==
    {"zbar_image_first_symbol", "zbar_symbol_next", "zbar_symbol_get_data",
     "symbol_type", "zbar_symbol_get_loc_size", "zbar_symbol_get_loc_x",
     "zbar_symbol_get_loc_y"}
HasAny(ops) == \E i \in DOMAIN calls : calls[i].op \in ops

ScanStatus(i) == calls[i].a[2]
ScanNegative == \E i \in Positions("zbar_scan_image") : ScanStatus(i) < 0
ScanOk == \E i \in Positions("zbar_scan_image") : ScanStatus(i) >= 0

FormatError == "PyZbarError: Unsupported bits-per-pixel"
DecoderError == "PyZbarError: Could not create decoder"
ImageError == "PyZbarError: Could not create image"
ScanError == "PyZbarError: Unsupported image format"
TypeError == "ValueError: not a valid ZBarSymbol"
EmptyError == "ValueError: min() arg is an empty sequence"

\* C1: in every call, on every way out of it, each scanner handle and each
\* image handle a create primitive returned is destroyed exactly once: never
\* twice at any moment, once when the call has ended, and nothing that was
\* not created is destroyed; when the scan status is negative both destroy
\* primitives have been invoked exactly once when the call ends.
C1_DestroyedExactlyOnce ==
    /\ \A h \in Created("zbar_image_scanner_create") :
        /\ CountH("zbar_image_scanner_destroy", h) <= 1
        /\ Ended => CountH("zbar_image_scanner_destroy", h) = 1
    /\ \A h \in Created("zbar_image_create") :
        /\ CountH("zbar_image_destroy", h) <= 1
        /\ Ended => CountH("zbar_image_destroy", h) = 1
    /\ Count("zbar_image_scanner_destroy")
         <= Cardinality(Created("zbar_image_scanner_create"))
    /\ Count("zbar_image_destroy") <= Cardinality(Created("zbar_image_create"))
    /\ (Ended /\ ScanNegative) =>
        /\ Count("zbar_image_destroy") = 1
        /\ Count("zbar_image_scanner_destroy") = 1

\* A call that ended in the scan error with both handles destroyed once.
C1_Witness ==
    /\ pc = "failed" /\ ScanNegative
    /\ Count("zbar_image_destroy") = 1
    /\ Count("zbar_image_scanner_destroy") = 1

\* C2: when the bits-per-pixel value computed at line 178 is not 8, decode
\* fails with the unsupported-bits-per-pixel error, and no engine primitive
\* (create, destroy, configuration or any other) has been invoked; the error
\* is never raised with a primitive invoked.
C2_FormatErrorBeforeEngine ==
    /\ (pc \notin {"idle", "unpack", "bpp"} /\ width * height # 0 /\ bpp # <<8, 1>>)
        => (pc = "failed" /\ exc = FormatError /\ calls = <<>>)
    /\ exc = FormatError => (pc = "failed" /\ calls = <<>>)

\* A buffer of width*height*2 bytes: 16 bits per pixel, rejected untouched.
C2_Witness ==
    /\ pc = "failed" /\ exc = FormatError
    /\ pixels = width * height * 2 /\ bpp = <<16, 1>>
    /\ calls = <<>>

\* C3: a create primitive that returns null makes decode fail with the
\* matching creation error and the matching destroy primitive is never
\* invoked; when it is the image that cannot be created, the scanner is
\* still destroyed exactly once, and no image-setup, scan or symbol
\* primitive is invoked.
C3_NullCreate ==
    /\ HasResult("zbar_image_scanner_create", NULL) =>
        /\ pc = "failed" /\ exc = DecoderError
        /\ Len(calls) = 1
    /\ HasResult("zbar_image_create", NULL) =>
        /\ exc = ImageError
        /\ pc \in {"zbar_image_scanner_destroy", "failed"}
        /\ ~Has("zbar_image_destroy")
        /\ ~HasAny(ImageSetupOps \cup SymbolOps \cup {"zbar_scan_image"})
        /\ Count("zbar_image_scanner_destroy") <= 1
        /\ pc = "failed" => Count("zbar_image_scanner_destroy") = 1

\* The image could not be created and the call ended, the scanner destroyed.
C3_Witness ==
    /\ pc = "failed" /\ exc = ImageError
    /\ HasResult("zbar_image_create", NULL)
    /\ Count("zbar_image_scanner_destroy") = 1

\* C4: whenever both handles were acquired, zbar_image_destroy precedes
\* zbar_image_scanner_destroy, with or without an exception in flight, and
\* the engine never holds a live image without a live scanner.
C4_ImageDestroyedFirst ==
    /\ \A i \in Positions("zbar_image_scanner_destroy") :
         Created("zbar_image_create") # {} =>
            \E j \in Positions("zbar_image_destroy") : j < i
    /\ live_images # {} => live_scanners # {}

\* A call that raised with both handles acquired, and destroyed both.
C4_Witness ==
    /\ Ended /\ exc # NoExc
    /\ Created("zbar_image_create") # {}
    /\ Has("zbar_image_destroy") /\ Has("zbar_image_scanner_destroy")

\* C5: every failure inside decode (division or format error, null from a
\* create primitive, negative scan status, unknown type code, no scan
\* points) leaves an exception in flight that stays in flight until the
\* caller has it, never a returned list; and the caller gets it only when
\* no handle of the call is live any more.
C5_ErrorsPropagate ==
    /\ exc # NoExc =>
        /\ pc \in {"zbar_image_destroy", "zbar_image_scanner_destroy", "failed"}
        /\ ret = <<>>
    /\ pc \in {"return", "done"} => exc = NoExc
    /\ pc = "failed" =>
        /\ exc # NoExc
        /\ live_scanners = {} /\ live_images = {}
    /\ (pc \notin {"idle", "unpack", "bpp"} /\ width * height = 0)
        => exc = "ZeroDivisionError"
    /\ (pc \notin {"idle", "unpack", "bpp"} /\ width * height # 0
            /\ bpp # <<8, 1>>)
        => exc = FormatError
    /\ HasResult("zbar_image_scanner_create", NULL) => exc = DecoderError
    /\ HasResult("zbar_image_create", NULL) => exc = ImageError
    /\ ScanNegative => exc = ScanError
    /\ (\E i \in Positions("symbol_type") : ZBarSymbolName(calls[i].a[1]) = "")
        => exc = TypeError
    /\ (pc # "yield" /\ \E i \in Positions("zbar_symbol_get_loc_size") :
            calls[i].a[1] = 0)
        => exc = EmptyError

\* A failure while extracting the second symbol, after a record was built:
\* the caller has the error, not the record, and nothing is live.
C5_Witness ==
    /\ pc = "failed" /\ exc = EmptyError
    /\ Len(results) = 1 /\ ret = <<>>
    /\ Count("zbar_image_destroy") = 1
    /\ Count("zbar_image_scanner_destroy") = 1

\* C6: when the scan status is not negative and zbar_image_first_symbol
\* returns null, decode raises nothing and returns the empty list, both
\* handles destroyed exactly once.
C6_NoSymbols ==
    (ScanOk /\ \E i \in Positions("zbar_image_first_symbol") : calls[i].a[1] = NULL)
    => /\ exc = NoExc
       /\ results = <<>>
       /\ ~HasAny(SymbolOps \ {"zbar_image_first_symbol"})
       /\ pc \in {"zbar_image_destroy", "zbar_image_scanner_destroy",
                  "return", "done"}
       /\ pc = "done" =>
            /\ ret = <<>>
            /\ Count("zbar_image_destroy") = 1
            /\ Count("zbar_image_scanner_destroy") = 1

\* A call that returned the empty list after a scan that found nothing.
C6_Witness ==
    /\ pc = "done" /\ ret = <<>> /\ ScanOk
    /\ \E i \in Positions("zbar_image_first_symbol") : calls[i].a[1] = NULL
    /\ Count("zbar_image_destroy") = 1
    /\ Count("zbar_image_scanner_destroy") = 1

\* The box of a non-empty set of points, by definition: no order involved.
Least(S) == CHOOSE m \in S : \A x \in S : m <= x
Greatest(S) == CHOOSE m \in S : \A x \in S : m >= x
PointsOf(locs) == {locs[i] : i \in DOMAIN locs}
BoxOfPoints(P) ==
    LET X == {p[1] : p \in P}
        Y == {p[2] : p \in P}
    IN [left |-> Least(X), top |-> Least(Y),
        width |-> Greatest(X) - Least(X), height |-> Greatest(Y) - Least(Y)]

FourCorners == << <<10, 10>>, <<50, 10>>, <<50, 30>>, <<10, 30>> >>

\* C7: for every non-empty list of scan points of a symbol, the record
\* built for it carries left = min x, top = min y, width = max x - min x,
\* height = max y - min y over the set of the symbol's points, whatever
\* their order; the four corners (10,10),(50,10),(50,30),(10,30) give
\* left 10, top 10, width 40, height 20.
C7_BoundingBox ==
    [][(pc = "yield" /\ locations # <<>>) =>
        /\ results' = Append(results,
              [data |-> data, type |-> symbol_type,
               rect |-> BoxOfPoints(PointsOf(locations))])
        /\ PointsOf(locations) = PointsOf(FourCorners) =>
              results'[Len(results')].rect =
                  [left |-> 10, top |-> 10, width |-> 40, height |-> 20]
      ]_vars

\* decode returned one record for a symbol with four scan points, the box
\* of the four corners.
C7_Witness ==
    /\ pc = "done" /\ Len(ret) = 1
    /\ Count("zbar_symbol_get_loc_x") = 4
    /\ ret[1].rect = [left |-> 10, top |-> 10, width |-> 40, height |-> 20]

\* C8: for every buffer length, width and height, decode fails with the
\* unsupported-bits-per-pixel error whenever 8 * length / (width * height)
\* is not exactly 8, and goes on to create the scanner only when the length
\* equals width * height.
C8_BppCheckTotal ==
    pc \notin {"idle", "unpack", "bpp"} =>
        /\ pixels # width * height => exc = FormatError
        /\ pc = "zbar_image_scanner_create" => pixels = width * height

\* C9: with a non-empty filter, the types the scanner has enabled when
\* zbar_scan_image is invoked are exactly the wanted ones, so that, the
\* engine reporting only symbols of enabled types, every record returned
\* has a type of the filter.
C9_FilterRespected ==
    Truthy(symbols) =>
        /\ \A i \in Positions("zbar_scan_image") : calls[i].a[3] = symbols.types
        /\ \A i \in Positions("zbar_scan_image") :
            (pc = "done" /\ \A k \in DOMAIN ret : ret[k].type \in calls[i].a[3])
            => \A k \in DOMAIN ret : ret[k].type \in symbols.types

\* Filter {QRCODE}: the scan ran with QRCODE alone enabled and decode
\* returned a QRCODE record.
C9_Witness ==
    /\ pc = "done" /\ ~symbols.none /\ symbols.types = {"QRCODE"}
    /\ \E i \in Positions("zbar_scan_image") : calls[i].a[3] = {"QRCODE"}
    /\ Len(ret) >= 1
    /\ \A k \in DOMAIN ret : ret[k].type = "QRCODE"

\* C10: a negative scan status makes decode fail with the unsupported-
\* image-format error; no first-symbol, next-symbol or symbol-read
\* primitive is invoked in that call and no record is built or returned.
C10_NegativeScan ==
    ScanNegative =>
        /\ exc = ScanError
        /\ pc \in {"zbar_image_destroy", "zbar_image_scanner_destroy", "failed"}
        /\ ~HasAny(SymbolOps)
        /\ results = <<>> /\ ret = <<>>

\* The call ended in the scan error, the scan its last engine answer read.
C10_Witness ==
    /\ pc = "failed" /\ exc = ScanError /\ ScanNegative
    /\ ~HasAny(SymbolOps) /\ ret = <<>>

InCall == pc \notin {"idle", "done", "failed"}

\* C11: for a (pixels, width, height) tuple, the width and height handed to
\* zbar_image_set_size and the buffer (its length) handed to
\* zbar_image_set_data are the caller's, the locals of line 175 are the
\* tuple's members, and the tuple is the same at every step of the call.
C11_TuplePassedThrough ==
    /\ [](/\ \A i \in Positions("zbar_image_set_size") :
                calls[i].a = <<image.width, image.height>>
          /\ \A i \in Positions("zbar_image_set_data") :
                calls[i].a = <<image.len>>
          /\ pc \notin {"idle", "unpack"} =>
                (pixels = image.len /\ width = image.width
                    /\ height = image.height)
          /\ live_images # {} /\ pc = "zbar_scan_image" =>
                (img_size = <<image.width, image.height>>
                    /\ img_data = image.len))
    /\ [][InCall => image' = image]_vars

\* A 2x1 tuple of 2 bytes reached the scan with its own dimensions.
C11_Witness ==
    /\ pc = "zbar_scan_image"
    /\ image = [len |-> 2, width |-> 2, height |-> 1]
    /\ \E i \in Positions("zbar_image_set_size") : calls[i].a = <<2, 1>>
    /\ \E i \in Positions("zbar_image_set_data") : calls[i].a = <<2>>

ConfigCalls(type, value) ==
    {i \in Positions("zbar_image_scanner_set_config") : calls[i].a = <<type, value>>}

\* The filter is a collection with a member.
Filtering == ~symbols.none /\ symbols.types # {}

\* The two loops of lines 187-198 are behind: line 199 has been reached.
Configured ==
    \/ pc \in {"zbar_image_create", "return", "done"}
    \/ Has("zbar_image_create")

\* C12: with no filter or an empty one no zbar_image_scanner_set_config call
\* is made; otherwise, once line 199 is reached, every type outside the
\* filter has had exactly one disable call and no enable call, every type in
\* it exactly one enable call and no disable call; every disable call
\* precedes every enable call; and every configuration call is on the
\* scanner this call created, after its creation and before the image is
\* created or scanned.
C12_FilterProtocol ==
    /\ ~Filtering => ~Has("zbar_image_scanner_set_config")
    /\ (Filtering /\ Configured) =>
        /\ \A t \in ZBarSymbol \ symbols.types :
            /\ Cardinality(ConfigCalls(t, CFG_OFF)) = 1
            /\ ConfigCalls(t, CFG_ON) = {}
        /\ \A t \in symbols.types :
            /\ Cardinality(ConfigCalls(t, CFG_ON)) = 1
            /\ ConfigCalls(t, CFG_OFF) = {}
    /\ \A i, j \in Positions("zbar_image_scanner_set_config") :
        (calls[i].a[2] = CFG_OFF /\ calls[j].a[2] = CFG_ON) => i < j
    /\ \A i \in Positions("zbar_image_scanner_set_config") :
        /\ calls[i].h # NULL
        /\ \E c \in Positions("zbar_image_scanner_create") :
            c < i /\ calls[c].h = calls[i].h
        /\ \A j \in Positions("zbar_image_create") \cup Positions("zbar_scan_image") :
            i < j

\* Filter {QRCODE}: CODE128 disabled, then QRCODE enabled, then the image
\* created.
C12_Witness ==
    /\ ~symbols.none /\ symbols.types = {"QRCODE"}
    /\ Len(calls) = 4
    /\ calls[2].op = "zbar_image_scanner_set_config"
    /\ calls[2].a = <<"CODE128", CFG_OFF>>
    /\ calls[3].op = "zbar_image_scanner_set_config"
    /\ calls[3].a = <<"QRCODE", CFG_ON>>
    /\ calls[4].op = "zbar_image_create"

\* The positions at which the engine reported a symbol without scan points.
ZeroLocs == {i \in Positions("zbar_symbol_get_loc_size") : calls[i].a[1] = 0}

\* C13: once line 132 has been run for a symbol the engine reported zero
\* scan points for, an exception (the ValueError of min()) is in flight or
\* with the caller; no record was built for that symbol, no list is
\* returned (the records of earlier symbols stay behind in the frame), no
\* symbol primitive follows, and the image and the scanner are each
\* destroyed at most once, exactly once when the caller has the error.
C13_ZeroLocationsFail ==
    (ZeroLocs # {} /\ pc # "yield") =>
        /\ exc = EmptyError
        /\ pc \in {"zbar_image_destroy", "zbar_image_scanner_destroy", "failed"}
        /\ ret = <<>>
        /\ Len(results) = Count("zbar_symbol_get_loc_size") - 1
        /\ \A i \in ZeroLocs : \A j \in DOMAIN calls :
            j > i => calls[j].op \notin SymbolOps
        /\ Count("zbar_image_destroy") <= 1
        /\ Count("zbar_image_scanner_destroy") <= 1
        /\ pc = "failed" =>
            /\ Count("zbar_image_destroy") = 1
            /\ Count("zbar_image_scanner_destroy") = 1

\* The second symbol of a scan had no scan points: the caller has the
\* error, the record of the first symbol was dropped with the frame.
C13_Witness ==
    /\ pc = "failed" /\ ZeroLocs # {}
    /\ Count("zbar_symbol_get_loc_size") = 2
    /\ Len(results) = 1 /\ ret = <<>>
    /\ live_images = {} /\ live_scanners = {}

\* The calls of some primitives, as the subsequence of the log they are.
CallsOf(ops) == SelectSeq(calls, LAMBDA c : c.op \in ops)

\* The walk of lines 105-108 as the engine saw it, and the chain of symbol
\* handles it visited: what first_symbol and next returned, up to null.
Walk == CallsOf({"zbar_image_first_symbol", "zbar_symbol_next"})
Chain == SelectSeq([k \in DOMAIN Walk |-> Walk[k].a[1]], LAMBDA s : s # NULL)

\* C14: the records collected so far are built, in order, from the first
\* handles of the chain, each handle read once and each zbar_symbol_next
\* asked of the handle before it; when decode returns, the walk has ended
\* at its first null, and the list returned has one record per handle of
\* the chain, the k-th record from the k-th handle, no handle twice.
C14_OneRecordPerSymbol ==
    LET walk == Walk
        chain == Chain
        reads == CallsOf({"zbar_symbol_get_data"})
    IN
    /\ Len(results) <= Len(chain)
    /\ \A k \in DOMAIN results : results[k].data = SymbolData(chain[k])
    /\ Len(reads) <= Len(chain)
    /\ \A k \in DOMAIN reads : reads[k].h = chain[k]
    /\ \A k \in DOMAIN walk :
        /\ k > 1 => (walk[k].op = "zbar_symbol_next" /\ walk[k].h = walk[k - 1].a[1])
        /\ k < Len(walk) => walk[k].a[1] # NULL
    /\ \A k, l \in DOMAIN chain : k # l => chain[k] # chain[l]
    /\ pc = "done" =>
        /\ Len(ret) = Len(chain)
        /\ \A k \in DOMAIN ret : ret[k].data = SymbolData(chain[k])
        /\ Len(reads) = Len(chain)
        /\ walk[1].op = "zbar_image_first_symbol"
        /\ walk[Len(walk)].a[1] = NULL

\* decode returned two records for a chain of two handles, in chain order.
C14_Witness ==
    /\ pc = "done"
    /\ Chain = <<1, 2>>
    /\ Len(ret) = 2
    /\ ret[1].data = SymbolData(1) /\ ret[2].data = SymbolData(2)

\* Where control is inside the two generators.
SymbolPcs ==
    {"zbar_image_first_symbol", "zbar_symbol_get_data", "symbol_type",
     "zbar_symbol_get_loc_size", "zbar_symbol_get_loc", "yield",
     "zbar_symbol_next"}

\* C15: every first-symbol, next-symbol and symbol-read call in the log
\* comes after a zbar_scan_image of non-negative status on the image handle
\* the symbols were obtained from, and before any zbar_image_destroy; while
\* control is in the generators the image handle is live.
C15_SymbolsWhileImageLive ==
    LET scans == Positions("zbar_scan_image")
        firsts == Positions("zbar_image_first_symbol")
        destroys == Positions("zbar_image_destroy")
    IN
    /\ \A i \in DOMAIN calls : calls[i].op \in SymbolOps =>
        /\ \E j \in scans :
            /\ j < i /\ ScanStatus(j) >= 0
            /\ \E f \in firsts :
                j < f /\ f <= i /\ calls[f].h = calls[j].h
        /\ \A d \in destroys : i < d
    /\ pc \in SymbolPcs => (img # NULL /\ img \in live_images)

\* Both coordinates of a scan point were read, and the image destroyed
\* after that, nothing raised.
C15_Witness ==
    /\ pc = "zbar_image_scanner_destroy" /\ exc = NoExc
    /\ Has("zbar_symbol_get_loc_y")
    /\ \E d \in Positions("zbar_image_destroy") :
        \A i \in Positions("zbar_symbol_get_loc_y") : i < d

NonNegative(rs) ==
    \A k \in DOMAIN rs : rs[k].rect.width >= 0 /\ rs[k].rect.height >= 0

\* C16: every record collected and every record returned has a rectangle
\* of width >= 0 and height >= 0, whatever non-empty list of scan points
\* (negative coordinates included) it was built from, and a symbol whose
\* points are all one point gets width = height = 0.
C16_RectNonNegative ==
    /\ [](NonNegative(results) /\ NonNegative(ret))
    /\ [][(pc = "yield" /\ locations # <<>>) =>
            /\ Len(results') = Len(results) + 1
            /\ NonNegative(results')
            /\ Cardinality(PointsOf(locations)) = 1 =>
                /\ results'[Len(results')].rect.width = 0
                /\ results'[Len(results')].rect.height = 0
         ]_vars

\* decode returned the record of a symbol whose only scan point is (-1,-1).
C16_Witness ==
    /\ pc = "done" /\ Len(ret) = 1
    /\ Count("zbar_symbol_get_loc_x") = 1
    /\ ret[1].rect = [left |-> -1, top |-> -1, width |-> 0, height |-> 0]

\* The calls of a primitive on a handle that precede position s.
Before(op, handle, s) ==
    {i \in Positions(op) : i < s /\ calls[i].h = handle}

\* C17: zbar_scan_image is called at most once in a call, exactly once by
\* the time a call that created its image has ended, with the scanner and
\* the image this call created; and before it the image has had, once each
\* and after its creation, zbar_image_set_format with 808466521 (L800),
\* zbar_image_set_size with the width and height, and zbar_image_set_data.
C17_OneScanAfterSetup ==
    /\ Count("zbar_scan_image") <= 1
    /\ (Ended /\ Created("zbar_image_create") # {}) => Count("zbar_scan_image") = 1
    /\ \A op \in ImageSetupOps : Count(op) <= 1
    /\ \A s \in Positions("zbar_scan_image") :
        LET h == calls[s].h IN
        /\ h \in Created("zbar_image_create")
        /\ calls[s].a[1] \in Created("zbar_image_scanner_create")
        /\ \E c \in Before("zbar_image_create", h, s) :
            \A op \in ImageSetupOps :
                /\ Cardinality(Before(op, h, s)) = 1
                /\ \A i \in Before(op, h, s) : c < i
        /\ \A i \in Before("zbar_image_set_format", h, s) :
            calls[i].a = <<808466521>>
        /\ \A i \in Before("zbar_image_set_size", h, s) :
            calls[i].a = <<width, height>>
        /\ \A i \in Before("zbar_image_set_data", h, s) :
            calls[i].a = <<pixels>>

\* A scan that answered a negative status was not tried again: the call
\* ended with one scan in its log, after one of each setup call.
C17_Witness ==
    /\ pc = "failed" /\ ScanNegative
    /\ Count("zbar_scan_image") = 1
    /\ \A op \in ImageSetupOps : Count(op) = 1

\* C18: over any sequence of calls, the engine holds at most one live
\* scanner and at most one live image, a live image only with a live
\* scanner, only handles the call in progress created and bound, and none
\* at all between calls: when a call has returned or raised, and when the
\* next one is invoked.
C18_HandleNesting ==
    /\ Cardinality(live_scanners) <= 1
    /\ Cardinality(live_images) <= 1
    /\ live_images # {} => live_scanners # {}
    /\ NULL \notin live_scanners \cup live_images
    /\ live_scanners \subseteq {scanner} \cap Created("zbar_image_scanner_create")
    /\ live_images \subseteq {img} \cap Created("zbar_image_create")
    /\ pc \in {"idle", "unpack", "done", "failed"} =>
        (live_scanners = {} /\ live_images = {})

\* A call that held both handles has returned and the engine holds none.
C18_Witness ==
    /\ pc = "done"
    /\ Created("zbar_image_scanner_create") # {}
    /\ Created("zbar_image_create") # {}
    /\ live_scanners = {} /\ live_images = {}

\* C19: every primitive returning and the chain of a scan being finite,
\* every call that is invoked ends, returned ("done") or raised ("failed"),
\* and ends with no handle live; once first_symbol or next has answered
\* null, control is out of the generators and no symbol primitive follows.
C19_Terminates ==
    /\ (pc = "unpack") ~> Ended
    /\ [](Ended => (live_scanners = {} /\ live_images = {}))
    /\ [](LET walk == Walk IN
          (\E k \in DOMAIN walk : walk[k].a[1] = NULL) =>
            /\ pc \notin SymbolPcs
            /\ \A k \in DOMAIN walk : walk[k].a[1] = NULL => k = Len(walk)
            /\ \A i \in DOMAIN calls : calls[i].op \in SymbolOps =>
                \E j \in DOMAIN calls :
                    /\ i <= j
                    /\ calls[j].op \in {"zbar_image_first_symbol", "zbar_symbol_next"}
                    /\ calls[j].a[1] = NULL)

\* A chain of two handles was walked to its null and the call returned.
C19_Witness ==
    /\ pc = "done"
    /\ Len(Walk) = 3 /\ Walk[3].a[1] = NULL
    /\ Len(ret) = 2
    /\ live_scanners = {} /\ live_images = {}
====
